---- MODULE Spec2Model ----
(***************************************************************************)
(* A model of desktop/src-tauri/src/ai.rs: the multi-provider chat         *)
(* gateway `ai_call`, its payload builders, its error classifier and its   *)
(* SSE stream decoding loop.                                               *)
(*                                                                         *)
(* Representation of text.  A byte stream is a sequence of byte tokens.    *)
(* An ASCII token stands for one ASCII byte ("NL", "SP", "CR", "a", "x")   *)
(* or for an indivisible run of ASCII bytes ("data:", "[DONE]", the        *)
(* opening and closing parts of a JSON document).  The bytes C3 A9 encode  *)
(* the two-byte character "e2" (U+00E9) and E2 82 AC the three-byte        *)
(* character "e3" (U+20AC); "FFFD" is the replacement character.  A        *)
(* decoded string is a sequence of characters: the ASCII tokens, "e2",     *)
(* "e3" and "FFFD".                                                        *)
(***************************************************************************)
EXTENDS Integers, Sequences, FiniteSets, TLC

(***************************************************************************)
(* Bounds of the model.                                                    *)
(***************************************************************************)
\* the longest chunk the transport hands over at once, in byte tokens
MaxChunk == 3
\* the most characters a response body holds after its run of ASCII filler
MaxTail == 2

(***************************************************************************)
(* Generic helpers.                                                        *)
(***************************************************************************)
Min(a, b) == IF a < b THEN a ELSE b

\* index of the first element of s equal to x, 0 when there is none
RECURSIVE FindFrom(_, _, _)
FindFrom(s, x, i) ==
    IF i > Len(s) THEN 0
    ELSE IF s[i] = x THEN i
    ELSE FindFrom(s, x, i + 1)

\* str::find('\n') on a decoded string (ai.rs:381)
Find(s, x) == FindFrom(s, x, 1)

(***************************************************************************)
(* Characters and bytes.                                                   *)
(***************************************************************************)
\* Unicode White_Space characters of the model: what str::trim removes
WhiteSpace == {"SP", "CR", "NL"}

\* bytes that are UTF-8 continuation bytes
ContBytes == {"A9", "82", "AC"}

\* String::from_utf8_lossy (ai.rs:377): invalid sequences become U+FFFD, one
\* per maximal prefix of a well-formed sequence
RECURSIVE Utf8Lossy(_)
Utf8Lossy(bs) ==
    IF bs = <<>> THEN <<>>
    ELSE LET b == Head(bs)
             n == Len(bs)
         IN  IF b = "C3"
             THEN IF n >= 2 /\ bs[2] = "A9"
                  THEN <<"e2">> \o Utf8Lossy(SubSeq(bs, 3, n))
                  ELSE <<"FFFD">> \o Utf8Lossy(Tail(bs))
             ELSE IF b = "E2"
             THEN IF n >= 2 /\ bs[2] = "82"
                  THEN IF n >= 3 /\ bs[3] = "AC"
                       THEN <<"e3">> \o Utf8Lossy(SubSeq(bs, 4, n))
                       ELSE <<"FFFD">> \o Utf8Lossy(SubSeq(bs, 3, n))
                  ELSE <<"FFFD">> \o Utf8Lossy(Tail(bs))
             ELSE IF b \in ContBytes
             THEN <<"FFFD">> \o Utf8Lossy(Tail(bs))
             ELSE <<b>> \o Utf8Lossy(Tail(bs))

\* str::trim (ai.rs:382, 392, 253): strip leading and trailing white space
RECURSIVE TrimStart(_)
TrimStart(s) ==
    IF s # <<>> /\ Head(s) \in WhiteSpace THEN TrimStart(Tail(s)) ELSE s

RECURSIVE TrimEnd(_)
TrimEnd(s) ==
    IF s # <<>> /\ s[Len(s)] \in WhiteSpace
    THEN TrimEnd(SubSeq(s, 1, Len(s) - 1))
    ELSE s

Trim(s) == TrimEnd(TrimStart(s))

(***************************************************************************)
(* JSON values (serde_json::Value), tagged so that a lookup can ask what a *)
(* value is: objects are functions from keys, arrays are sequences,        *)
(* strings are sequences of characters.                                    *)
(***************************************************************************)
JNone == [t |-> "none"]
JStr(s) == [t |-> "str", v |-> s]
JArr(a) == [t |-> "arr", v |-> a]
JObj(f) == [t |-> "obj", v |-> f]

\* Value::get(key), chained with Option::and_then: None stays None
Get(j, k) ==
    IF j.t = "obj" THEN (IF k \in DOMAIN j.v THEN j.v[k] ELSE JNone) ELSE JNone

\* Value::get(0) on an array, <[Value]>::first
First(j) ==
    IF j.t = "arr" THEN (IF Len(j.v) > 0 THEN j.v[1] ELSE JNone) ELSE JNone

\* Value::as_array: Some only for an array
AsArray(j) == IF j.t = "arr" THEN j ELSE JNone

\* Value::as_str: Some only for a string
IsStr(j) == j.t = "str"

\* characters a JSON string of the model may hold between its quotes
TextChars == {"a", "e2", "e3", "FFFD"}

\* the documents with one text slot: the token opens the document up to the
\* opening quote of the slot, "END" closes the slot and the document
Template(open, text) ==
    CASE open = "oa<" ->
           JObj([choices |-> JArr(<<JObj([delta |-> JObj([content |-> JStr(text)])])>>)])
      [] open = "oa_stop<" ->
           JObj([choices |-> JArr(<<JObj([delta |-> JObj([content |-> JStr(text)]),
                                           finish_reason |-> JStr(<<"stop">>)])>>)])
      [] open = "oa_end_turn<" ->
           JObj([choices |-> JArr(<<JObj([delta |-> JObj([content |-> JStr(text)]),
                                           finish_reason |-> JStr(<<"end_turn">>)])>>)])
      [] open = "oa_length<" ->
           JObj([choices |-> JArr(<<JObj([delta |-> JObj([content |-> JStr(text)]),
                                           finish_reason |-> JStr(<<"length">>)])>>)])
      [] open = "oa_msg<" ->
           JObj([choices |-> JArr(<<JObj([message |-> JObj([content |-> JStr(text)])])>>)])
      [] open = "an<" ->
           JObj([type |-> JStr(<<"content_block_delta">>),
                 delta |-> JObj([text |-> JStr(text)])])
      [] open = "an_stop<" ->
           JObj([type |-> JStr(<<"message_stop">>),
                 delta |-> JObj([text |-> JStr(text)])])
      [] open = "an_start<" ->
           JObj([type |-> JStr(<<"content_block_start">>),
                 delta |-> JObj([text |-> JStr(text)])])
      [] open = "an_msg<" ->
           JObj([content |-> JArr(<<JObj([text |-> JStr(text)])>>)])
      [] open = "gm<" ->
           JObj([candidates |-> JArr(<<JObj([content |->
                    JObj([parts |-> JArr(<<JObj([text |-> JStr(text)])>>)])])>>)])
      [] open = "gm_stop<" ->
           JObj([candidates |-> JArr(<<JObj([content |->
                    JObj([parts |-> JArr(<<JObj([text |-> JStr(text)])>>)]),
                    finishReason |-> JStr(<<"STOP">>)])>>)])
      [] open = "gm_max<" ->
           JObj([candidates |-> JArr(<<JObj([content |->
                    JObj([parts |-> JArr(<<JObj([text |-> JStr(text)])>>)]),
                    finishReason |-> JStr(<<"MAX_TOKENS">>)])>>)])
      [] open = "gm_safety<" ->
           JObj([candidates |-> JArr(<<JObj([content |->
                    JObj([parts |-> JArr(<<JObj([text |-> JStr(text)])>>)]),
                    finishReason |-> JStr(<<"SAFETY">>)])>>)])
      [] open = "err<" ->
           JObj([error |-> JObj([message |-> JStr(text)])])

OpenTokens == {"oa<", "oa_stop<", "oa_end_turn<", "oa_length<", "oa_msg<",
               "an<", "an_stop<", "an_start<", "an_msg<",
               "gm<", "gm_stop<", "gm_max<", "gm_safety<", "err<"}

\* the documents without a text slot, one token each
AtomDoc(tok) ==
    CASE tok = "{}" -> JObj(<<>>)
      [] tok = "an_stop" -> JObj([type |-> JStr(<<"message_stop">>)])
      [] tok = "an_ping" -> JObj([type |-> JStr(<<"ping">>)])
      [] tok = "oa_stop" ->
           JObj([choices |-> JArr(<<JObj([delta |-> JObj(<<>>),
                                           finish_reason |-> JStr(<<"stop">>)])>>)])
      [] tok = "oa_empty" -> JObj([choices |-> JArr(<<>>)])

AtomTokens == {"{}", "an_stop", "an_ping", "oa_stop", "oa_empty"}

\* serde_json::from_str(..).ok(): the parsed document, JNone when the text is
\* not one JSON document (white space around the document is allowed)
ParseJson(s) ==
    LET d == Trim(s)
        n == Len(d)
    IN  IF n = 1 /\ d[1] \in AtomTokens THEN AtomDoc(d[1])
        ELSE IF /\ n >= 2
                /\ d[1] \in OpenTokens
                /\ d[n] = "END"
                /\ \A k \in 2..(n - 1) : d[k] \in TextChars
        THEN Template(d[1], SubSeq(d, 2, n - 1))
        ELSE JNone

(***************************************************************************)
(* Long texts.  A response body is [pre |-> n, tail |-> s]: n ASCII filler *)
(* characters "x" followed by the characters of s, so that a body longer   *)
(* than the 300-byte limit of map_error is a small value.                  *)
(***************************************************************************)
Text(n, s) == [pre |-> n, tail |-> s]
EmptyText == Text(0, <<>>)

\* the UTF-8 length of a character, and of a run of ASCII bytes its length
ByteLen(c) ==
    CASE c = "e2" -> 2
      [] c \in {"e3", "FFFD"} -> 3
      [] c = "data:" -> 5
      [] c = "event:" -> 6
      [] c = "[DONE]" -> 6
      [] c \in OpenTokens -> 20
      [] c \in AtomTokens -> 20
      [] c = "END" -> 4
      [] OTHER -> 1

\* the number of characters a token stands for
CharLen(c) == IF c \in {"e2", "e3", "FFFD"} THEN 1 ELSE ByteLen(c)

RECURSIVE SumBytes(_)
SumBytes(s) == IF s = <<>> THEN 0 ELSE ByteLen(Head(s)) + SumBytes(Tail(s))

\* str::len: the length in bytes
TextLen(b) == b.pre + SumBytes(b.tail)

\* the longest prefix of s that fits in k bytes
RECURSIVE TakeBytes(_, _)
TakeBytes(s, k) ==
    IF s = <<>> \/ ByteLen(Head(s)) > k THEN <<>>
    ELSE <<Head(s)>> \o TakeBytes(Tail(s), k - ByteLen(Head(s)))

\* str::is_char_boundary(k), for k <= len
IsCharBoundary(b, k) ==
    \/ k <= b.pre
    \/ SumBytes(TakeBytes(b.tail, k - b.pre)) = k - b.pre

\* &body[..k] where k is a character boundary
ByteSlice(b, k) ==
    IF k <= b.pre THEN Text(k, <<>>) ELSE Text(b.pre, TakeBytes(b.tail, k - b.pre))

\* the first k characters of s
RECURSIVE TakeChars(_, _)
TakeChars(s, k) ==
    IF s = <<>> \/ CharLen(Head(s)) > k THEN <<>>
    ELSE <<Head(s)>> \o TakeChars(Tail(s), k - CharLen(Head(s)))

\* body.chars().take(k).collect()
CharsTake(b, k) ==
    IF k <= b.pre THEN Text(k, <<>>) ELSE Text(b.pre, TakeChars(b.tail, k - b.pre))

\* serde_json::from_str of a body: filler text is no JSON document
ParseBody(b) == IF b.pre = 0 THEN ParseJson(b.tail) ELSE JNone

(***************************************************************************)
(* Messages: the strings the code formats, kept as what they were         *)
(* formatted from.                                                         *)
(***************************************************************************)
Msg(kind, provider, model, status, text, detail) ==
    [kind |-> kind, provider |-> provider, model |-> model, status |-> status,
     text |-> text, detail |-> detail]

\* Option::None of an error
NoError == Msg("none", "", "", 0, EmptyText, "")

\* a failure that does not name the provider
UnknownProvider_NoName(p) == Msg("Unknown provider: ", "", "", 0, EmptyText, "")

\* format!("Unknown provider: {}", provider) (ai.rs:296, 303, 213)
UnknownProvider(p) == Msg("Unknown provider: ", p, "", 0, EmptyText, "")

(***************************************************************************)
(* Options.                                                                *)
(***************************************************************************)
None == [some |-> FALSE]
Some(v) == [some |-> TRUE, v |-> v]
UnwrapOr(o, d) == IF o.some THEN o.v ELSE d

\* temperature.unwrap_or(0.7), in tenths
DefaultTemperature == 7
\* max_tokens.unwrap_or(4096)
DefaultMaxTokens == 4096
\* the length map_error cuts a body to
BodyLimit == 300

(***************************************************************************)
(* The payload builders.                                                   *)
(***************************************************************************)
RECURSIVE SelectSystem(_)
\* messages.iter().filter(|m| m.role == "system")
SelectSystem(ms) ==
    IF ms = <<>> THEN <<>>
    ELSE (IF Head(ms).role = "system" THEN <<Head(ms)>> ELSE <<>>)
         \o SelectSystem(Tail(ms))

RECURSIVE SelectOther(_)
\* messages.iter().filter(|m| m.role != "system")
SelectOther(ms) ==
    IF ms = <<>> THEN <<>>
    ELSE (IF Head(ms).role # "system" THEN <<Head(ms)>> ELSE <<>>)
         \o SelectOther(Tail(ms))

\* .map(|m| json!({"role": m.role, "content": m.content}))
RoleContent(ms) ==
    [k \in 1..Len(ms) |-> [role |-> ms[k].role, content |-> ms[k].content]]

RECURSIVE JoinLines_NoSeparator(_)
\* the contents run together with nothing between them
JoinLines_NoSeparator(ms) ==
    IF ms = <<>> THEN <<>>
    ELSE Head(ms).content \o JoinLines_NoSeparator(Tail(ms))

RECURSIVE JoinLines(_)
\* .map(|m| m.content.clone()).collect::<Vec<_>>().join("\n")
JoinLines(ms) ==
    IF ms = <<>> THEN <<>>
    ELSE IF Len(ms) = 1 THEN Head(ms).content
    ELSE Head(ms).content \o <<"NL">> \o JoinLines(Tail(ms))

build_openai_body(request) ==
    LET sys == SelectSystem(request.messages)
        system_msg == IF sys = <<>> THEN None ELSE Some(Head(sys))
        other_msgs == RoleContent(SelectOther(request.messages))
        messages ==
            (IF system_msg.some
             THEN <<[role |-> "system", content |-> system_msg.v.content]>>
             ELSE <<>>) \o other_msgs
    IN  [model |-> request.model,
         messages |-> messages,
         temperature |-> UnwrapOr(request.temperature, DefaultTemperature),
         max_tokens |-> UnwrapOr(request.max_tokens, DefaultMaxTokens),
         stream |-> request.stream]

build_anthropic_body(request) ==
    LET system_content == JoinLines(SelectSystem(request.messages))
        messages == RoleContent(SelectOther(request.messages))
        body == [model |-> request.model,
                 messages |-> messages,
                 max_tokens |-> UnwrapOr(request.max_tokens, DefaultMaxTokens),
                 temperature |-> UnwrapOr(request.temperature, DefaultTemperature),
                 stream |-> request.stream]
    IN  IF system_content # <<>>
        THEN [model |-> body.model, messages |-> body.messages,
              max_tokens |-> body.max_tokens, temperature |-> body.temperature,
              stream |-> body.stream, system |-> system_content]
        ELSE body

build_gemini_body(request) ==
    LET system_content == JoinLines(SelectSystem(request.messages))
        other == SelectOther(request.messages)
        contents ==
            [k \in 1..Len(other) |->
                [role |-> IF other[k].role = "assistant" THEN "model" ELSE "user",
                 parts |-> <<[text |-> other[k].content]>>]]
        body == [contents |-> contents,
                 generationConfig |->
                    [temperature |-> UnwrapOr(request.temperature, DefaultTemperature),
                     maxOutputTokens |-> UnwrapOr(request.max_tokens, DefaultMaxTokens)]]
    IN  IF system_content # <<>>
        THEN [contents |-> body.contents, generationConfig |-> body.generationConfig,
              systemInstruction |-> [parts |-> <<[text |-> system_content]>>]]
        ELSE body

\* the empty String of the `_` arm is <<>>
get_url(provider, model, api_key, stream) ==
    CASE provider = "openai" -> <<"https://api.openai.com/v1/chat/completions">>
      [] provider = "xai" -> <<"https://api.x.ai/v1/chat/completions">>
      [] provider = "anthropic" -> <<"https://api.anthropic.com/v1/messages">>
      [] provider = "gemini" ->
           IF stream
           THEN <<"https://generativelanguage.googleapis.com/v1beta/models/", model,
                  ":streamGenerateContent?alt=sse&key=", api_key>>
           ELSE <<"https://generativelanguage.googleapis.com/v1beta/models/", model,
                  ":generateContent?key=", api_key>>
      [] OTHER -> <<>>

\* the request headers set at ai.rs:306-324
Headers(request) ==
    {<<"Content-Type", "application/json">>} \cup
    (CASE request.provider \in {"openai", "xai"} ->
            {<<"Authorization", "Bearer", request.api_key>>}
       [] request.provider = "anthropic" ->
            {<<"x-api-key", request.api_key>>, <<"anthropic-version", "2023-06-01">>}
       [] OTHER -> {})

(***************************************************************************)
(* The error classifier.                                                   *)
(***************************************************************************)
\* whether the slice at ai.rs:182 panics: the cut is inside a character
MapErrorPanics(status, body_text) ==
    /\ status \notin {401, 429, 404, 400, 500, 502, 503}
    /\ ~IsCharBoundary(body_text, Min(TextLen(body_text), BodyLimit))

map_error(status, provider, model, body_text) ==
    CASE status = 401 -> Msg("Invalid API key for ", provider, "", 0, EmptyText, "")
      [] status = 429 ->
           Msg("Rate limited by . Wait and retry.", provider, "", 0, EmptyText, "")
      [] status = 404 -> Msg("Model  not found on ", provider, model, 0, EmptyText, "")
      [] status = 400 ->
           LET m == Get(Get(ParseBody(body_text), "error"), "message")
               msg == IF IsStr(m) THEN Text(0, m.v)
                      ELSE CharsTake(body_text, BodyLimit)
           IN  Msg("Bad request to : ", provider, "", 0, msg, "")
      [] status \in {500, 502, 503} ->
           Msg(" server error. Try again later.", provider, "", 0, EmptyText, "")
      [] OTHER ->
           Msg(" returned status : ", provider, "", status,
               ByteSlice(body_text, Min(TextLen(body_text), BodyLimit)), "")

(***************************************************************************)
(* Response extraction.                                                    *)
(***************************************************************************)
\* Ok(text) is [ok |-> TRUE, val |-> text]; Err(msg) is [ok |-> FALSE, err |-> msg]
Ok(v) == [ok |-> TRUE, val |-> v, err |-> NoError]
Err(m) == [ok |-> FALSE, val |-> <<>>, err |-> m]

extract_non_stream_content(provider, body) ==
    CASE provider \in {"openai", "xai"} ->
           LET c == Get(Get(First(Get(body, "choices")), "message"), "content")
           IN  IF IsStr(c) THEN Ok(c.v)
               ELSE Err(Msg("Failed to parse response from API", "", "", 0, EmptyText, ""))
      [] provider = "anthropic" ->
           LET c == Get(First(Get(body, "content")), "text")
           IN  IF IsStr(c) THEN Ok(c.v)
               ELSE Err(Msg("Failed to parse Anthropic response", "", "", 0, EmptyText, ""))
      [] provider = "gemini" ->
           LET c == Get(First(Get(Get(First(Get(body, "candidates")), "content"),
                                  "parts")), "text")
           IN  IF IsStr(c) THEN Ok(c.v)
               ELSE Err(Msg("Failed to parse Gemini response", "", "", 0, EmptyText, ""))
      [] OTHER -> Err(UnknownProvider(provider))

\* an extractor that reads delta.text of an anthropic payload of any type
extract_stream_delta_AnyType(provider, data) ==
    LET parsed == ParseJson(data)
    IN  IF parsed = JNone THEN JNone
        ELSE CASE provider \in {"openai", "xai"} ->
                    LET c == Get(Get(First(Get(parsed, "choices")), "delta"), "content")
                    IN  IF IsStr(c) THEN c ELSE JNone
               [] provider = "anthropic" ->
                    LET c == Get(Get(parsed, "delta"), "text")
                    IN  IF IsStr(c) THEN c ELSE JNone
               [] provider = "gemini" ->
                    LET c == Get(First(Get(Get(First(Get(parsed, "candidates")),
                                               "content"), "parts")), "text")
                    IN  IF IsStr(c) THEN c ELSE JNone
               [] OTHER -> JNone

\* Some(s) is JStr(s), None is JNone
extract_stream_delta(provider, data) ==
    LET parsed == ParseJson(data)
    IN  IF parsed = JNone THEN JNone
        ELSE CASE provider \in {"openai", "xai"} ->
                    LET c == Get(Get(First(Get(parsed, "choices")), "delta"), "content")
                    IN  IF IsStr(c) THEN c ELSE JNone
               [] provider = "anthropic" ->
                    LET ty == Get(parsed, "type")
                        event_type == IF IsStr(ty) THEN ty.v ELSE <<>>
                    IN  IF event_type = <<"content_block_delta">>
                        THEN LET c == Get(Get(parsed, "delta"), "text")
                             IN  IF IsStr(c) THEN c ELSE JNone
                        ELSE JNone
               [] provider = "gemini" ->
                    LET c == Get(First(Get(Get(First(Get(parsed, "candidates")),
                                               "content"), "parts")), "text")
                    IN  IF IsStr(c) THEN c ELSE JNone
               [] OTHER -> JNone

\* is_stream_done comparing the payload with the sentinel as it stands
is_stream_done_NoTrim(provider, data) ==
    IF data = <<"[DONE]">> THEN TRUE
    ELSE LET parsed == ParseJson(data)
         IN  IF parsed = JNone THEN FALSE
             ELSE CASE provider \in {"openai", "xai"} ->
                         LET reason == Get(First(AsArray(Get(parsed, "choices"))),
                                           "finish_reason")
                         IN  IF IsStr(reason)
                             THEN reason.v = <<"stop">> \/ reason.v = <<"end_turn">>
                             ELSE FALSE
                    [] provider = "anthropic" ->
                         LET ty == Get(parsed, "type")
                         IN  IF IsStr(ty) THEN ty.v = <<"message_stop">> ELSE FALSE
                    [] provider = "gemini" ->
                         LET reason == Get(First(AsArray(Get(parsed, "candidates"))),
                                           "finishReason")
                         IN  IF IsStr(reason)
                             THEN reason.v = <<"STOP">> \/ reason.v = <<"MAX_TOKENS">>
                             ELSE FALSE
                    [] OTHER -> FALSE

is_stream_done(provider, data) ==
    IF Trim(data) = <<"[DONE]">> THEN TRUE
    ELSE LET parsed == ParseJson(data)
         IN  IF parsed = JNone THEN FALSE
             ELSE CASE provider \in {"openai", "xai"} ->
                         LET reason == Get(First(AsArray(Get(parsed, "choices"))),
                                           "finish_reason")
                         IN  IF IsStr(reason)
                             THEN reason.v = <<"stop">> \/ reason.v = <<"end_turn">>
                             ELSE FALSE
                    [] provider = "anthropic" ->
                         LET ty == Get(parsed, "type")
                         IN  IF IsStr(ty) THEN ty.v = <<"message_stop">> ELSE FALSE
                    [] provider = "gemini" ->
                         LET reason == Get(First(AsArray(Get(parsed, "candidates"))),
                                           "finishReason")
                         IN  IF IsStr(reason)
                             THEN reason.v = <<"STOP">> \/ reason.v = <<"MAX_TOKENS">>
                             ELSE FALSE
                    [] OTHER -> FALSE

(***************************************************************************)
(* The stream decoding loop of ai_call.                                    *)
(***************************************************************************)
StreamEvent(stream_id, delta, done, error) ==
    [stream_id |-> stream_id, delta |-> delta, done |-> done, error |-> error]

\* the event emitted when a termination marker is met (ai.rs:399-404)
DoneEvent(stream_id) == StreamEvent(stream_id, <<>>, TRUE, NoError)

\* the event emitted for an extracted delta (ai.rs:410-415)
DeltaEvent(stream_id, delta) == StreamEvent(stream_id, delta, FALSE, NoError)

\* an end of stream reported as one more non-terminal event
EndEvent_NotTerminal(stream_id) == StreamEvent(stream_id, <<>>, FALSE, NoError)

\* the event emitted when the chunk sequence ends (ai.rs:434-439)
EndEvent(stream_id) == StreamEvent(stream_id, <<>>, TRUE, NoError)

\* a failure reported on an event that is not terminal
ErrorEvent_NotTerminal(stream_id, error_msg) ==
    StreamEvent(stream_id, <<>>, FALSE, error_msg)

\* the event emitted for a failure (ai.rs:359-364, 422-427)
ErrorEvent(stream_id, error_msg) == StreamEvent(stream_id, <<>>, TRUE, error_msg)

\* the payload of a data line, None for a line that is no data line
\* (ai.rs:389-396)
DataOf(line) ==
    IF Len(line) >= 2 /\ line[1] = "data:" /\ line[2] = "SP"
    THEN Some(SubSeq(line, 3, Len(line)))
    ELSE IF Len(line) >= 1 /\ line[1] = "data:"
    THEN Some(Trim(SubSeq(line, 2, Len(line))))
    ELSE None

\* the inner loop extracting the delta of a line before it looks for a marker
RECURSIVE ProcessLines_DeltaFirst(_, _, _, _)
ProcessLines_DeltaFirst(provider, stream_id, buffer, evs) ==
    LET newline_pos == Find(buffer, "NL")
    IN  IF newline_pos = 0
        THEN [buffer |-> buffer, events |-> evs, returned |-> FALSE]
        ELSE LET line == Trim(SubSeq(buffer, 1, newline_pos - 1))
                 rest == SubSeq(buffer, newline_pos + 1, Len(buffer))
                 data == DataOf(line)
             IN  IF line = <<>> \/ ~data.some
                 THEN ProcessLines_DeltaFirst(provider, stream_id, rest, evs)
                 ELSE LET delta == extract_stream_delta(provider, data.v)
                          evs2 == IF IsStr(delta) /\ delta.v # <<>>
                                  THEN Append(evs, DeltaEvent(stream_id, delta.v))
                                  ELSE evs
                      IN  IF is_stream_done(provider, data.v)
                          THEN [buffer |-> <<>>,
                                events |-> Append(evs2, DoneEvent(stream_id)),
                                returned |-> TRUE]
                          ELSE ProcessLines_DeltaFirst(provider, stream_id, rest, evs2)

RECURSIVE ProcessLines_BreakOnSkip(_, _, _, _)
\* a decoder that leaves the line loop at a line it skips, so that the lines
\* after it wait for the next chunk
ProcessLines_BreakOnSkip(provider, stream_id, buffer, evs) ==
    LET newline_pos == Find(buffer, "NL")
    IN  IF newline_pos = 0
        THEN [buffer |-> buffer, events |-> evs, returned |-> FALSE]
        ELSE LET line == Trim(SubSeq(buffer, 1, newline_pos - 1))
                 rest == SubSeq(buffer, newline_pos + 1, Len(buffer))
                 data == DataOf(line)
             IN  IF line = <<>> \/ ~data.some
                 THEN [buffer |-> rest, events |-> evs, returned |-> FALSE]
                 ELSE IF is_stream_done(provider, data.v)
                 THEN [buffer |-> <<>>,
                       events |-> Append(evs, DoneEvent(stream_id)),
                       returned |-> TRUE]
                 ELSE LET delta == extract_stream_delta(provider, data.v)
                      IN  IF IsStr(delta) /\ delta.v # <<>>
                          THEN ProcessLines_BreakOnSkip(provider, stream_id, rest,
                                            Append(evs, DeltaEvent(stream_id, delta.v)))
                          ELSE ProcessLines_BreakOnSkip(provider, stream_id, rest, evs)

RECURSIVE ProcessLines_BreakOnMarker(_, _, _, _)
\* a decoder that on a termination marker emits the terminal event and
\* leaves the line loop only, so that the chunk loop goes on
ProcessLines_BreakOnMarker(provider, stream_id, buffer, evs) ==
    LET newline_pos == Find(buffer, "NL")
    IN  IF newline_pos = 0
        THEN [buffer |-> buffer, events |-> evs, returned |-> FALSE]
        ELSE LET line == Trim(SubSeq(buffer, 1, newline_pos - 1))
                 rest == SubSeq(buffer, newline_pos + 1, Len(buffer))
                 data == DataOf(line)
             IN  IF line = <<>> \/ ~data.some
                 THEN ProcessLines_BreakOnMarker(provider, stream_id, rest, evs)
                 ELSE IF is_stream_done(provider, data.v)
                 THEN [buffer |-> rest,
                       events |-> Append(evs, DoneEvent(stream_id)),
                       returned |-> FALSE]
                 ELSE LET delta == extract_stream_delta(provider, data.v)
                      IN  IF IsStr(delta) /\ delta.v # <<>>
                          THEN ProcessLines_BreakOnMarker(provider, stream_id, rest,
                                            Append(evs, DeltaEvent(stream_id, delta.v)))
                          ELSE ProcessLines_BreakOnMarker(provider, stream_id, rest, evs)

\* the inner loop (ai.rs:381-418): lines are taken off the buffer until none
\* is complete or a termination marker returns from the call; evs are the
\* events emitted so far
RECURSIVE ProcessLines(_, _, _, _)
ProcessLines(provider, stream_id, buffer, evs) ==
    LET newline_pos == Find(buffer, "NL")
    IN  IF newline_pos = 0
        THEN [buffer |-> buffer, events |-> evs, returned |-> FALSE]
        ELSE LET line == Trim(SubSeq(buffer, 1, newline_pos - 1))
                 rest == SubSeq(buffer, newline_pos + 1, Len(buffer))
                 data == DataOf(line)
             IN  IF line = <<>> \/ ~data.some
                 THEN ProcessLines(provider, stream_id, rest, evs)
                 ELSE IF is_stream_done(provider, data.v)
                 THEN [buffer |-> <<>>,
                       events |-> Append(evs, DoneEvent(stream_id)),
                       returned |-> TRUE]
                 ELSE LET delta == extract_stream_delta(provider, data.v)
                      IN  IF IsStr(delta) /\ delta.v # <<>>
                          THEN ProcessLines(provider, stream_id, rest,
                                            Append(evs, DeltaEvent(stream_id, delta.v)))
                          ELSE ProcessLines(provider, stream_id, rest, evs)

\* a decoder that forgets between chunks the line it has not completed
ProcessChunk_NoCarry(provider, stream_id, buffer, bytes) ==
    ProcessLines(provider, stream_id, Utf8Lossy(bytes), <<>>)

\* the Ok(bytes) arm (ai.rs:376-419): the chunk is decoded on its own and
\* appended to the buffer, then the complete lines are processed
ProcessChunk(provider, stream_id, buffer, bytes) ==
    ProcessLines(provider, stream_id, buffer \o Utf8Lossy(bytes), <<>>)

(***************************************************************************)
(* Inputs.                                                                 *)
(***************************************************************************)
KnownProviders == {"openai", "xai", "anthropic", "gemini"}
Providers == KnownProviders \cup {"foo", "OpenAI"}

\* the statuses a response may carry
Statuses == {200, 400, 401, 403, 404, 418, 429, 500, 502, 503}

\* the failures of send() the code tells apart (ai.rs:331-337)
SendErrors == {"timeout", "connect", "other"}

\* the failures of the byte stream
StreamErrors == {"error decoding response body"}

Is2xx(status) == status >= 200 /\ status < 300

RECURSIVE SeqsUpTo(_, _)
\* the sequences over S of length at most n
SeqsUpTo(S, n) ==
    IF n = 0 THEN {<<>>}
    ELSE LET shorter == SeqsUpTo(S, n - 1)
         IN  shorter \cup {Append(s, c) : s \in shorter, c \in S}

\* response bodies: filler up to around the limit of map_error, then a few
\* characters; and short JSON documents
RawBodies ==
    {Text(n, s) : n \in {0, BodyLimit - 2, BodyLimit - 1, BodyLimit},
                  s \in SeqsUpTo({"x", "e2"}, MaxTail)}

JsonBodies ==
    {Text(0, <<open, "a", "END">>) : open \in {"oa_msg<", "an_msg<", "gm<", "err<"}}
    \cup {Text(0, <<"{}">>)}

Bodies == RawBodies \cup JsonBodies

\* a data line with the "data: " prefix, and one with the "data:" prefix
DataSp(payload) == <<"data:", "SP">> \o payload \o <<"NL">>
DataNoSp(payload) == <<"data:">> \o payload \o <<"NL">>

\* the document opening tokens of a vendor's stream
Dialects == {"oa", "an", "gm"}
DeltaOpen(d) == CASE d = "oa" -> "oa<" [] d = "an" -> "an<" [] d = "gm" -> "gm<"
StopOpen(d) ==
    CASE d = "oa" -> "oa_stop<" [] d = "an" -> "an_stop<" [] d = "gm" -> "gm_stop<"

\* first lines of a stream of dialect d
FirstLines(d) ==
    {DataSp(<<DeltaOpen(d), "a", "END">>),
     DataNoSp(<<DeltaOpen(d), "C3", "A9", "END">>),
     DataSp(<<DeltaOpen(d), "a">>),
     DataSp(<<StopOpen(d), "a", "END">>),
     <<"event:", "a", "NL">>,
     <<"CR", "NL">>}

\* what follows the first line: another line, an unterminated line, nothing
SecondLines(d) ==
    {DataSp(<<DeltaOpen(d), "END">>),
     DataNoSp(<<StopOpen(d), "a", "END">>),
     DataSp(<<"SP", "[DONE]", "CR">>),
     <<"data:", "SP", DeltaOpen(d), "a", "END">>,
     <<>>}

\* the streams made of the documents of one vendor
DialectWires(d) == {f \o s : f \in FirstLines(d), s \in SecondLines(d)}

\* streams every provider is sent, whatever the vendor of their documents
MixedWires ==
    {DataSp(<<"oa_length<", "E2", "82", "AC", "END">>),
     DataSp(<<"gm_max<", "a", "END">>),
     DataSp(<<"oa_end_turn<", "END">>),
     DataNoSp(<<"an_stop">>) \o DataSp(<<"an<", "a", "END">>),
     DataSp(<<"an_start<", "a", "END">>) \o DataNoSp(<<"[DONE]">>),
     DataNoSp(<<"SP", "[DONE]">>) \o DataSp(<<"gm<", "a", "END">>),
     <<":", "NL">> \o DataSp(<<"an<", "a", "END">>),
     DataNoSp(<<"x">>) \o DataSp(<<"oa<", "a", "END">>),
     DataSp(<<"gm<", "a", "END">>) \o <<"data:", "[DONE]">>}

\* the vendor whose documents a provider's server sends
DialectOf(provider) ==
    CASE provider \in {"openai", "xai"} -> "oa"
      [] provider = "anthropic" -> "an"
      [] provider = "gemini" -> "gm"

\* the byte streams the server of each provider may send
Wires == [p \in KnownProviders |-> DialectWires(DialectOf(p)) \cup MixedWires]

User(c) == [role |-> "user", content |-> c]
System(c) == [role |-> "system", content |-> c]
Assistant(c) == [role |-> "assistant", content |-> c]

\* the requests with correlation id sid, providers Ps and stream flags Sts
RequestsOf(sid, Ps, Sts) ==
    {[provider |-> p, api_key |-> "key", model |-> "m", messages |-> ms,
      temperature |-> None, max_tokens |-> Some(16), stream |-> st,
      stream_id |-> sid] :
        p \in Ps, st \in Sts,
        ms \in {<<System(<<"a">>), User(<<"a">>)>>}}

(***************************************************************************)
(* The state: per call, the request, the position in ai_call, the result   *)
(* returned, the request handed to the transport, the response status, the *)
(* bytes the server has yet to send, the decode buffer; and the events     *)
(* emitted on the "ai-stream" channel, in order.  consumed is history: the *)
(* chunks the call has taken off its byte stream.  fn is the application   *)
(* of one of the pure functions on its own: its name, its argument and its *)
(* outcome.                                                                *)
(***************************************************************************)
VARIABLES req, pc, result, sent, status, wire, buffer, consumed, events, fn

vars == <<req, pc, result, sent, status, wire, buffer, consumed, events, fn>>

\* no pure function is applied on its own
Idle == [op |-> "none"]

Ids == {1, 2}

\* the result of a call that has not returned
Pending == [ok |-> FALSE, val |-> <<>>, err |-> Msg("pending", "", "", 0, EmptyText, "")]

Known(r) == r.provider \in KnownProviders

\* the streams a call may be sent: none unless it streams from a known provider
WiresFor(r, Ws) == IF r.stream /\ Known(r) THEN Ws[r.provider] ELSE {<<>>}

\* call 1 is invoked with a request of R1 and call 2 with one of R2; a call
\* whose set is empty is absent
InitCalls(R1, R2, Ws) ==
    LET absent == CHOOSE r \in RequestsOf("none", {"foo"}, {FALSE}) : TRUE
        Rs(R) == IF R = {} THEN {absent} ELSE R
    IN  /\ \E r1 \in Rs(R1), r2 \in Rs(R2) :
             /\ req = (1 :> r1 @@ 2 :> r2)
             /\ \E w1 \in WiresFor(r1, Ws), w2 \in WiresFor(r2, Ws) :
                  wire = (1 :> w1 @@ 2 :> w2)
        /\ pc = (1 :> (IF R1 = {} THEN "absent" ELSE "invoked")
                 @@ 2 :> (IF R2 = {} THEN "absent" ELSE "invoked"))
        /\ result = [i \in Ids |-> Pending]
        /\ sent = [i \in Ids |-> None]
        /\ status = [i \in Ids |-> 0]
        /\ buffer = [i \in Ids |-> <<>>]
        /\ consumed = [i \in Ids |-> <<>>]
        /\ events = <<>>

Init == InitCalls(RequestsOf("s1", Providers, BOOLEAN), {}, Wires) /\ fn = Idle

\* the byte streams of the two concurrent calls
ConcWires ==
    [p \in KnownProviders |->
        {DataSp(<<"oa<", "a", "END">>),
         DataNoSp(<<"an<", "C3", "A9", "END">>),
         DataNoSp(<<"[DONE]">>) \o <<"NL">>}]

\* two calls invoked together, with distinct correlation ids
InitConc ==
    /\ InitCalls(RequestsOf("s1", {"openai"}, BOOLEAN),
                 RequestsOf("s2", {"anthropic", "foo"}, {TRUE}), ConcWires)
    /\ fn = Idle

\* one decode buffer used by every call
Slot_Shared(i) == 1

\* the decode buffer a call uses: its own (ai.rs:372, a local of the call)
Slot(i) == i

Return(i, r) ==
    /\ result' = [result EXCEPT ![i] = r]
    /\ pc' = [pc EXCEPT ![i] = "returned"]

\* the match at ai.rs:299-304: the payload, None for the `_` arm
BuildBody(request) ==
    CASE request.provider \in {"openai", "xai"} -> Some(build_openai_body(request))
      [] request.provider = "anthropic" -> Some(build_anthropic_body(request))
      [] request.provider = "gemini" -> Some(build_gemini_body(request))
      [] OTHER -> None

\* ai.rs:288-328: the client is built, the url and the payload are made and
\* the request is handed to the transport
AiCallStart(i) ==
    /\ pc[i] = "invoked"
    /\ \E client_ok \in BOOLEAN :
         LET request == req[i]
             url == get_url(request.provider, request.model, request.api_key,
                            request.stream)
             body == BuildBody(request)
         IN  IF ~client_ok
             THEN /\ Return(i, Err(Msg("Failed to create HTTP client: ", "", "", 0,
                                       EmptyText, "")))
                  /\ UNCHANGED sent
             ELSE IF url = <<>> \/ ~body.some
             THEN /\ Return(i, Err(UnknownProvider(request.provider)))
                  /\ UNCHANGED sent
             ELSE /\ sent' = [sent EXCEPT ![i] =
                        Some([url |-> url, headers |-> Headers(request),
                              body |-> body.v])]
                  /\ pc' = [pc EXCEPT ![i] = "sending"]
                  /\ UNCHANGED result
    /\ UNCHANGED <<fn, req, status, wire, buffer, consumed, events>>

\* ai.rs:326-338: send() fails
SendFails(i) ==
    /\ pc[i] = "sending"
    /\ \E e \in SendErrors :
         Return(i, Err(
            CASE e = "timeout" ->
                   Msg("Request to  timed out.", req[i].provider, "", 0, EmptyText, "")
              [] e = "connect" ->
                   Msg("Cannot reach . Check your internet connection.",
                       req[i].provider, "", 0, EmptyText, "")
              [] OTHER ->
                   Msg("Network error connecting to : ", req[i].provider, "", 0,
                       EmptyText, e)))
    /\ wire' = [wire EXCEPT ![i] = <<>>]
    /\ UNCHANGED <<fn, req, sent, status, buffer, consumed, events>>

\* ai.rs:326-340, 342, 356, 368-372: the response arrives with its status; only
\* a 2xx response to a streaming call carries the byte stream
SendResponds(i) ==
    /\ pc[i] = "sending"
    /\ \E s \in Statuses :
         /\ status' = [status EXCEPT ![i] = s]
         /\ pc' = [pc EXCEPT ![i] =
                IF ~req[i].stream THEN "reading"
                ELSE IF ~Is2xx(s) THEN "reading_error"
                ELSE "streaming"]
         /\ wire' = [wire EXCEPT ![i] = IF Is2xx(s) THEN wire[i] ELSE <<>>]
    /\ UNCHANGED <<fn, req, result, sent, buffer, consumed, events>>

\* what ai.rs:345-352 returns for a body that was read
NonStreamResult(request, s, body_text) ==
    IF ~Is2xx(s)
    THEN Err(map_error(s, request.provider, request.model, body_text))
    ELSE LET parsed == ParseBody(body_text)
         IN  IF parsed = JNone
             THEN Err(Msg("Failed to parse response JSON: ", "", "", 0, EmptyText, ""))
             ELSE extract_non_stream_content(request.provider, parsed)

\* ai.rs:342-353: the non-streaming branch
ReadBody(i) ==
    /\ pc[i] = "reading"
    /\ \E read_ok \in BOOLEAN, body_text \in Bodies :
         IF ~read_ok
         THEN Return(i, Err(Msg("Failed to read response: ", "", "", 0, EmptyText, "")))
         ELSE IF ~Is2xx(status[i]) /\ MapErrorPanics(status[i], body_text)
         THEN /\ pc' = [pc EXCEPT ![i] = "panicked"]
              /\ UNCHANGED result
         ELSE Return(i, NonStreamResult(req[i], status[i], body_text))
    /\ UNCHANGED <<fn, req, sent, status, wire, buffer, consumed, events>>

\* the events ai.rs:359-364 emits
HttpErrorEvents(stream_id, error_msg) == <<ErrorEvent(stream_id, error_msg)>>

\* ai.rs:356-366: the streaming branch on a status that is not 2xx
ReadErrorBody(i) ==
    /\ pc[i] = "reading_error"
    /\ \E read_ok \in BOOLEAN, body \in Bodies :
         LET body_text == IF read_ok THEN body ELSE EmptyText
             error_msg == map_error(status[i], req[i].provider, req[i].model, body_text)
         IN  IF MapErrorPanics(status[i], body_text)
             THEN /\ pc' = [pc EXCEPT ![i] = "panicked"]
                  /\ UNCHANGED <<result, events>>
             ELSE /\ events' = events \o HttpErrorEvents(req[i].stream_id, error_msg)
                  /\ Return(i, Err(error_msg))
    /\ UNCHANGED <<fn, req, sent, status, wire, buffer, consumed>>

\* ai.rs:374-419: the byte stream yields a chunk: a few of the bytes the
\* server has yet to send, or all of them
ChunkOk(i) ==
    /\ pc[i] = "streaming"
    /\ wire[i] # <<>>
    /\ \E k \in (1..Min(MaxChunk, Len(wire[i]))) \cup {Len(wire[i])} :
         LET bytes == SubSeq(wire[i], 1, k)
             r == ProcessChunk(req[i].provider, req[i].stream_id, buffer[Slot(i)],
                               bytes)
         IN  /\ wire' = [wire EXCEPT ![i] = SubSeq(wire[i], k + 1, Len(wire[i]))]
             /\ consumed' = [consumed EXCEPT ![i] = Append(consumed[i], bytes)]
             /\ events' = events \o r.events
             /\ buffer' = [buffer EXCEPT ![Slot(i)] = r.buffer]
             /\ IF r.returned
                THEN Return(i, Ok(<<>>))
                ELSE UNCHANGED <<pc, result>>
    /\ UNCHANGED <<fn, req, sent, status>>

\* the events and the result of the Err(e) arm (ai.rs:420-429)
StreamErrorMsg(provider, e) == Msg("Stream error from : ", provider, "", 0, EmptyText, e)
\* a transport error that leaves the call a success
StreamErrorResult_Success(error_msg) == Ok(<<>>)
StreamErrorResult(error_msg) == Err(error_msg)

\* ai.rs:420-429: the byte stream yields an error
ChunkErr(i) ==
    /\ pc[i] = "streaming"
    /\ \E e \in StreamErrors :
         LET error_msg == StreamErrorMsg(req[i].provider, e)
         IN  /\ events' = Append(events, ErrorEvent(req[i].stream_id, error_msg))
             /\ Return(i, StreamErrorResult(error_msg))
    /\ buffer' = [buffer EXCEPT ![Slot(i)] = <<>>]
    /\ UNCHANGED <<fn, req, sent, status, wire, consumed>>

\* an end of stream that first decodes the unfinished line left in the buffer
StreamEndEvents_Flush(provider, stream_id, left) ==
    ProcessLines(provider, stream_id, left \o <<"NL">>, <<>>).events
    \o <<EndEvent(stream_id)>>

\* the events of the end of the stream (ai.rs:433-439): the terminal event;
\* what is left in the buffer is not looked at
StreamEndEvents(provider, stream_id, left) == <<EndEvent(stream_id)>>

\* ai.rs:374, 433-441: the byte stream ends
StreamEnd(i) ==
    /\ pc[i] = "streaming"
    /\ events' = events \o StreamEndEvents(req[i].provider, req[i].stream_id,
                                           buffer[Slot(i)])
    /\ Return(i, Ok(<<>>))
    /\ buffer' = [buffer EXCEPT ![Slot(i)] = <<>>]
    /\ UNCHANGED <<fn, req, sent, status, wire, consumed>>

Next ==
    \E i \in Ids :
        \/ AiCallStart(i)
        \/ SendFails(i)
        \/ SendResponds(i)
        \/ ReadBody(i)
        \/ ReadErrorBody(i)
        \/ ChunkOk(i)
        \/ ChunkErr(i)
        \/ StreamEnd(i)

Spec == Init /\ [][Next]_vars

SpecConc == InitConc /\ [][Next]_vars

(***************************************************************************)
(* The payload builders on their own: a request is drawn and its payload   *)
(* is built.                                                               *)
(***************************************************************************)
\* the longest message list of a request
MaxMsgs == 3

\* the messages of a request: two system texts that differ, an empty one,
\* and the two other roles
Messages ==
    {System(<<"a">>), System(<<"b">>), System(<<>>), User(<<"a">>),
     Assistant(<<"b">>)}

BuildRequests ==
    {[provider |-> p, api_key |-> "key", model |-> "m", messages |-> ms,
      temperature |-> t, max_tokens |-> None, stream |-> FALSE,
      stream_id |-> "s1"] :
        p \in KnownProviders, ms \in SeqsUpTo(Messages, MaxMsgs),
        t \in {None, Some(2)}}

\* no call is made
NoWires == [p \in KnownProviders |-> {<<>>}]

NoCalls == InitCalls({}, {}, NoWires)

InitBuild ==
    /\ NoCalls
    /\ \E r \in BuildRequests : fn = [op |-> "build", arg |-> r, out |-> None]

\* ai.rs:299-304 on its own
Build ==
    /\ fn.op = "build"
    /\ ~fn.out.some
    /\ fn' = [fn EXCEPT !.out = BuildBody(fn.arg)]
    /\ UNCHANGED <<req, pc, result, sent, status, wire, buffer, consumed, events>>

NextBuild == Build

SpecBuild == InitBuild /\ [][NextBuild]_vars

(***************************************************************************)
(* map_error on its own: a status, a provider, a model and a body are      *)
(* drawn and classified.                                                   *)
(***************************************************************************)
\* the outcome of an application that panicked
Panicked == [panic |-> TRUE]

InitClassify ==
    /\ NoCalls
    /\ \E s \in Statuses, p \in {"openai", "foo"}, b \in Bodies :
         fn = [op |-> "map_error",
               arg |-> [status |-> s, provider |-> p, model |-> "m", body_text |-> b],
               out |-> None]

\* ai.rs:164-184 on its own
Classify ==
    /\ fn.op = "map_error"
    /\ ~fn.out.some
    /\ LET a == fn.arg
       IN  fn' = [fn EXCEPT !.out =
                    IF MapErrorPanics(a.status, a.body_text) THEN Some(Panicked)
                    ELSE Some(map_error(a.status, a.provider, a.model, a.body_text))]
    /\ UNCHANGED <<req, pc, result, sent, status, wire, buffer, consumed, events>>

NextClassify == Classify

SpecClassify == InitClassify /\ [][NextClassify]_vars

(***************************************************************************)
(* Vocabulary of the properties.                                           *)
(***************************************************************************)
\* the events emitted for a correlation id, in order
EventsFor(sid) == SelectSeq(events, LAMBDA e : e.stream_id = sid)
EventsOf(i) == EventsFor(req[i].stream_id)

\* the call has ended: it returned, or it panicked
Ended(i) == pc[i] \in {"returned", "panicked"}

\* exactly one event of evs is terminal, and it is the last one
OneTerminalLast(evs) ==
    /\ evs # <<>>
    /\ evs[Len(evs)].done
    /\ \A k \in 1..(Len(evs) - 1) : ~evs[k].done

\* the failures of send(), as the messages ai.rs:331-337 formats
IsSendFailure(m) ==
    m.kind \in {"Request to  timed out.",
                "Cannot reach . Check your internet connection.",
                "Network error connecting to : "}

IsClientFailure(m) == m.kind = "Failed to create HTTP client: "

(***************************************************************************)
(* C1.  Every streaming call, whatever its outcome (unknown provider,      *)
(* dispatch failure, non-2xx status, termination marker, transport error   *)
(* mid-stream, end of the chunk sequence), has emitted exactly one         *)
(* terminal event for its correlation id by the time it ends, and that     *)
(* event is the last one for the id.  The code emits no event at all when  *)
(* the provider is unknown or send() fails.                                *)
(***************************************************************************)
C1_OneTerminalPerStreamingCall ==
    \A i \in Ids :
        (req[i].stream /\ Ended(i) /\ ~IsClientFailure(result[i].err))
            => OneTerminalLast(EventsOf(i))

(***************************************************************************)
(* C2.  A failure of a streaming call before any response byte is          *)
(* consumed, a failure of send() included, is reported as a terminal event *)
(* carrying the error and as the failure result of the call.  The code     *)
(* returns the failure of send() without emitting any event.               *)
(***************************************************************************)
C2_EarlyFailureIsEventAndResult ==
    \A i \in Ids :
        (/\ req[i].stream
         /\ pc[i] = "returned"
         /\ sent[i].some
         /\ consumed[i] = <<>>
         /\ ~result[i].ok)
            => EventsOf(i) = <<[stream_id |-> req[i].stream_id, delta |-> <<>>,
                                done |-> TRUE, error |-> result[i].err]>>

(***************************************************************************)
(* C3.  A streaming call that met a status that is not 2xx ends having     *)
(* emitted exactly one event, terminal, with an empty delta and the        *)
(* classified error, having consumed no chunk, and returns that error.     *)
(* The code panics instead, emitting nothing, when the status is not one   *)
(* map_error names and byte 300 of the body is inside a character (C14).   *)
(***************************************************************************)
C3_Non2xxSingleErrorEvent ==
    \A i \in Ids :
        (req[i].stream /\ status[i] # 0 /\ ~Is2xx(status[i]) /\ Ended(i))
            => /\ Len(EventsOf(i)) = 1
               /\ EventsOf(i)[1].done
               /\ EventsOf(i)[1].delta = <<>>
               /\ EventsOf(i)[1].error # NoError
               /\ EventsOf(i)[1].error.provider = req[i].provider
               /\ result[i] = [ok |-> FALSE, val |-> <<>>,
                               err |-> EventsOf(i)[1].error]
               /\ consumed[i] = <<>>

C5_UnknownProviderAlwaysReported ==
    \A i \in Ids :
        (pc[i] = "returned" /\ req[i].provider \notin {"openai", "xai", "anthropic", "gemini"})
            => result[i] = [ok |-> FALSE, val |-> <<>>,
                            err |-> Msg("Unknown provider: ", req[i].provider, "", 0,
                                        EmptyText, "")]

(***************************************************************************)
(* C5, amended.  A call with a provider outside openai, xai, anthropic and *)
(* gemini, streaming or not, never dispatches a request, builds no payload *)
(* and emits no event, and it ends in one step: it returns "Unknown        *)
(* provider: <provider>" unless the HTTP client could not be constructed,  *)
(* in which case it returns that failure.                                  *)
(***************************************************************************)
C5_UnknownProviderNoTransport ==
    \A i \in Ids :
        (pc[i] # "absent" /\ req[i].provider \notin {"openai", "xai", "anthropic", "gemini"})
            => /\ ~sent[i].some
               /\ EventsOf(i) = <<>>
               /\ status[i] = 0
               /\ consumed[i] = <<>>
               /\ pc[i] \in {"invoked", "returned"}
               /\ pc[i] = "returned" =>
                    \/ result[i] = [ok |-> FALSE, val |-> <<>>,
                                    err |-> Msg("Unknown provider: ", req[i].provider,
                                                "", 0, EmptyText, "")]
                    \/ IsClientFailure(result[i].err)

\* a streaming call to "foo" that returned the unknown-provider failure
C5_Witness ==
    \E i \in Ids :
        /\ req[i].provider = "foo" /\ req[i].stream /\ pc[i] = "returned"
        /\ result[i].err.kind = "Unknown provider: "
        /\ result[i].err.provider = "foo"
        /\ ~sent[i].some /\ events = <<>>

(***************************************************************************)
(* The received text of a call and its lines.                              *)
(***************************************************************************)
RECURSIVE DecodeEach(_)
\* the text the chunks cs put in the buffer: each chunk decoded on its own
DecodeEach(cs) ==
    IF cs = <<>> THEN <<>> ELSE Utf8Lossy(Head(cs)) \o DecodeEach(Tail(cs))

RECURSIVE CompleteLines(_)
\* the lines of a text that end in a line-feed, without it
CompleteLines(text) ==
    LET p == Find(text, "NL")
    IN  IF p = 0 THEN <<>>
        ELSE <<SubSeq(text, 1, p - 1)>>
             \o CompleteLines(SubSeq(text, p + 1, Len(text)))

\* the complete lines call i has received
LinesOf(i) == CompleteLines(DecodeEach(consumed[i]))

\* a data line, and its payload with the white space around it removed
IsDataLine(line) == Trim(line) # <<>> /\ Head(Trim(line)) = "data:"
PayloadOf(line) == Trim(Tail(Trim(line)))

\* the payload is the [DONE] sentinel
IsSentinelLine(line) == IsDataLine(line) /\ PayloadOf(line) = <<"[DONE]">>

\* the payload is a termination marker of the provider
IsMarkerLine(provider, line) ==
    /\ IsDataLine(line)
    /\ LET j == ParseJson(PayloadOf(line))
           reason == Get(First(Get(j, "choices")), "finish_reason")
           ty == Get(j, "type")
           finish == Get(First(Get(j, "candidates")), "finishReason")
       IN  \/ /\ provider \in {"openai", "xai"}
              /\ reason \in {JStr(<<"stop">>), JStr(<<"end_turn">>)}
           \/ /\ provider = "anthropic"
              /\ ty = JStr(<<"message_stop">>)
           \/ /\ provider = "gemini"
              /\ finish \in {JStr(<<"STOP">>), JStr(<<"MAX_TOKENS">>)}

Terminates(provider, line) == IsSentinelLine(line) \/ IsMarkerLine(provider, line)

\* the index of the first terminating line, 0 when there is none
FirstTerminating(provider, lines) ==
    IF \E m \in 1..Len(lines) : Terminates(provider, lines[m])
    THEN CHOOSE m \in 1..Len(lines) :
            /\ Terminates(provider, lines[m])
            /\ \A k \in 1..(m - 1) : ~Terminates(provider, lines[k])
    ELSE 0

\* the text of the provider's delta field in a line, <<>> when it has none
DeltaText(provider, line) ==
    IF ~IsDataLine(line) THEN <<>>
    ELSE LET d == extract_stream_delta(provider, PayloadOf(line))
         IN  IF d.t = "str" THEN d.v ELSE <<>>

RECURSIVE DeltaEventsOf(_, _, _)
\* one non-terminal event per line that carries a non-empty delta, in order
DeltaEventsOf(provider, sid, lines) ==
    IF lines = <<>> THEN <<>>
    ELSE (IF DeltaText(provider, Head(lines)) # <<>>
          THEN <<[stream_id |-> sid, delta |-> DeltaText(provider, Head(lines)),
                  done |-> FALSE, error |-> NoError]>>
          ELSE <<>>)
         \o DeltaEventsOf(provider, sid, Tail(lines))

\* the terminal event without an error
PlainTerminal(sid) == [stream_id |-> sid, delta |-> <<>>, done |-> TRUE, error |-> NoError]

\* the cut between chunks a and b is inside a character
CutInsideChar(a, b) ==
    /\ a # <<>> /\ b # <<>>
    /\ \/ a[Len(a)] = "C3" /\ b[1] = "A9"
       \/ a[Len(a)] = "E2" /\ b[1] = "82"
       \/ Len(a) >= 2 /\ a[Len(a) - 1] = "E2" /\ a[Len(a)] = "82" /\ b[1] = "AC"

(***************************************************************************)
(* C6.  A data line delivered in two chunks that are cut inside a          *)
(* multi-byte character yields the events the same bytes yield when they   *)
(* are delivered in one chunk.  The code decodes each chunk on its own, so *)
(* the two halves of the character become replacement characters.          *)
(***************************************************************************)
C6_SplitCharacterRecombined ==
    \A i \in Ids :
        (Len(consumed[i]) = 2 /\ CutInsideChar(consumed[i][1], consumed[i][2]))
            => EventsOf(i) =
                 ProcessChunk(req[i].provider, req[i].stream_id, <<>>,
                              consumed[i][1] \o consumed[i][2]).events

(***************************************************************************)
(* C7.  When the first terminating line a call receives is a data line     *)
(* whose payload is a termination marker of its provider, the call has     *)
(* emitted the deltas of the lines before it, then one terminal event      *)
(* without error, and nothing for the text the marker line carries; it has *)
(* returned empty success.  While no line terminates, no event is terminal *)
(* and there are no more events than lines.                                *)
(***************************************************************************)
C7_MarkerLineOnlyTerminates ==
    \A i \in Ids :
        LET provider == req[i].provider
            lines == LinesOf(i)
            m == FirstTerminating(provider, lines)
        IN  /\ (m > 0 /\ IsMarkerLine(provider, lines[m])) =>
                 /\ EventsOf(i) =
                      DeltaEventsOf(provider, req[i].stream_id, SubSeq(lines, 1, m - 1))
                      \o <<PlainTerminal(req[i].stream_id)>>
                 /\ pc[i] = "returned"
                 /\ result[i] = [ok |-> TRUE, val |-> <<>>, err |-> NoError]
            /\ (m = 0 /\ pc[i] = "streaming") =>
                 /\ Len(EventsOf(i)) <= Len(lines)
                 /\ \A k \in 1..Len(EventsOf(i)) : ~EventsOf(i)[k].done

\* a gemini call ended by a line that holds both a text and finishReason STOP
C7_Witness ==
    \E i \in Ids :
        LET lines == LinesOf(i)
        IN  /\ req[i].provider = "gemini"
            /\ Len(lines) = 1
            /\ IsMarkerLine("gemini", lines[1])
            /\ DeltaText("gemini", lines[1]) = <<"a">>
            /\ EventsOf(i) = <<PlainTerminal(req[i].stream_id)>>
            /\ pc[i] = "returned"

(***************************************************************************)
(* C8.  When the first terminating line a call receives is a data line,    *)
(* with either prefix, whose payload trimmed is [DONE], the call, whatever *)
(* its provider, has emitted the deltas of the lines before it and then    *)
(* one terminal event without error, and has returned empty success.       *)
(***************************************************************************)
C8_DoneSentinelTerminates ==
    \A i \in Ids :
        LET provider == req[i].provider
            lines == LinesOf(i)
            m == FirstTerminating(provider, lines)
        IN  (m > 0 /\ IsSentinelLine(lines[m])) =>
                /\ EventsOf(i) =
                     DeltaEventsOf(provider, req[i].stream_id, SubSeq(lines, 1, m - 1))
                     \o <<PlainTerminal(req[i].stream_id)>>
                /\ pc[i] = "returned"
                /\ result[i] = [ok |-> TRUE, val |-> <<>>, err |-> NoError]

\* an anthropic call ended by "data:  [DONE]" after a delta
C8_Witness ==
    \E i \in Ids :
        LET lines == LinesOf(i)
        IN  /\ req[i].provider = "anthropic"
            /\ Len(lines) = 2
            /\ lines[2] = <<"data:", "SP", "SP", "[DONE]", "CR">>
            /\ Len(EventsOf(i)) = 2
            /\ EventsOf(i)[1].delta = <<"a">>
            /\ EventsOf(i)[2] = PlainTerminal(req[i].stream_id)
            /\ pc[i] = "returned"

(***************************************************************************)
(* C9.  A streaming call that got a 2xx response and has returned without  *)
(* having received a terminating line and without a transport error has    *)
(* emitted the deltas of all its lines and then one terminal event with no *)
(* error and an empty delta, and has returned empty success.               *)
(***************************************************************************)
C9_GracefulEndOfStream ==
    \A i \in Ids :
        LET provider == req[i].provider
            lines == LinesOf(i)
        IN  (/\ req[i].stream /\ Is2xx(status[i]) /\ pc[i] = "returned"
             /\ FirstTerminating(provider, lines) = 0
             /\ \A k \in 1..Len(EventsOf(i)) : EventsOf(i)[k].error = NoError)
                => /\ EventsOf(i) =
                        DeltaEventsOf(provider, req[i].stream_id, lines)
                        \o <<PlainTerminal(req[i].stream_id)>>
                   /\ result[i] = [ok |-> TRUE, val |-> <<>>, err |-> NoError]

\* a call whose stream ended after a delta line, no marker received
C9_Witness ==
    \E i \in Ids :
        /\ req[i].stream /\ pc[i] = "returned" /\ result[i].ok
        /\ Len(LinesOf(i)) >= 1
        /\ FirstTerminating(req[i].provider, LinesOf(i)) = 0
        /\ Len(EventsOf(i)) = 2
        /\ ~EventsOf(i)[1].done
        /\ EventsOf(i)[2] = PlainTerminal(req[i].stream_id)

RECURSIVE RunChunks(_, _, _, _, _)
\* the chunks cs pumped in order through a decoder of the call's own, from
\* buffer buf and events evs
RunChunks(provider, sid, buf, cs, evs) ==
    IF cs = <<>> THEN [buffer |-> buf, events |-> evs, returned |-> FALSE]
    ELSE LET r == ProcessChunk(provider, sid, buf, Head(cs))
         IN  IF r.returned
             THEN [buffer |-> <<>>, events |-> evs \o r.events, returned |-> TRUE]
             ELSE RunChunks(provider, sid, r.buffer, Tail(cs), evs \o r.events)

\* what call i run alone on its chunks has emitted, given how it ended
AloneEvents(i) ==
    LET sid == req[i].stream_id
        run == RunChunks(req[i].provider, sid, <<>>, consumed[i], <<>>)
    IN  IF ~(req[i].stream /\ status[i] # 0) THEN <<>>
        ELSE IF pc[i] # "returned" \/ run.returned THEN run.events
        ELSE run.events
             \o <<[stream_id |-> sid, delta |-> <<>>, done |-> TRUE,
                   error |-> IF result[i].ok THEN NoError ELSE result[i].err]>>

(***************************************************************************)
(* C10.  With two calls running together, their steps interleaved in any   *)
(* order, the events carrying a call's correlation id are the events that  *)
(* call emits from its own chunks alone, in that order; its buffer holds   *)
(* what its own chunks left; and every event carries the id of one of the  *)
(* calls.                                                                  *)
(***************************************************************************)
C10_CallsDoNotInterfere ==
    /\ \A i \in Ids :
         /\ EventsOf(i) = AloneEvents(i)
         /\ pc[i] = "streaming" =>
              buffer[i] = RunChunks(req[i].provider, req[i].stream_id, <<>>,
                                    consumed[i], <<>>).buffer
    /\ Len(events) = Len(EventsFor(req[1].stream_id)) + Len(EventsFor(req[2].stream_id))

\* both calls have consumed chunks, and an event of call 2 lies between two
\* events of call 1
C10_Witness ==
    /\ req[1].stream_id # req[2].stream_id
    /\ consumed[1] # <<>> /\ consumed[2] # <<>>
    /\ \E j, k, l \in 1..Len(events) :
         /\ j < k /\ k < l
         /\ events[j].stream_id = req[1].stream_id
         /\ events[k].stream_id = req[2].stream_id
         /\ events[l].stream_id = req[1].stream_id

(***************************************************************************)
(* C11.  In every state, every event emitted with done = FALSE has no      *)
(* error: an error is carried only by a terminal event.                    *)
(***************************************************************************)
C11_OnlyTerminalEventsCarryErrors ==
    \A k \in 1..Len(events) :
        /\ ~events[k].done => events[k].error = NoError
        /\ events[k].error # NoError => events[k].done

\* a delta event followed by the terminal event of a transport error
C11_Witness ==
    \E k \in 1..Len(events) :
        /\ k > 1
        /\ ~events[k - 1].done
        /\ events[k - 1].error = NoError
        /\ events[k].done
        /\ events[k].error.kind = "Stream error from : "

\* a payload has been built for a request of one of the providers Ps
Built(Ps) == fn.op = "build" /\ fn.out.some /\ fn.arg.provider \in Ps

(***************************************************************************)
(* C12.  For the openai and xai providers the messages array of the built  *)
(* payload holds every input message, system ones included, in the input   *)
(* order, each as {role, content}: none moved, none dropped, none merged.  *)
(***************************************************************************)
C12_EveryMessageKeptInPlace ==
    Built({"openai", "xai"}) =>
        LET ms == fn.arg.messages
            out == fn.out.v.messages
        IN  /\ Len(out) = Len(ms)
            /\ \A k \in 1..Len(ms) :
                 out[k] = [role |-> ms[k].role, content |-> ms[k].content]

IsSystem(m) == m.role = "system"
NotSystem(m) == m.role # "system"

RECURSIVE Joined(_)
\* the texts cs with a line feed between each two
Joined(cs) ==
    IF Len(cs) = 0 THEN <<>>
    ELSE IF Len(cs) = 1 THEN cs[1]
    ELSE Joined(SubSeq(cs, 1, Len(cs) - 1)) \o <<"NL">> \o cs[Len(cs)]

\* the system text of a message list
SystemText(ms) ==
    LET sys == SelectSeq(ms, IsSystem)
    IN  Joined([k \in 1..Len(sys) |-> sys[k].content])

(***************************************************************************)
(* C13.  For the anthropic provider, and for gemini with systemInstruction,*)
(* the message array of the built payload holds exactly the non-system     *)
(* messages in their input order, the system field holds the contents of   *)
(* all system messages joined with line feeds in their input order, and    *)
(* the field is absent exactly when that joined text is empty.             *)
(***************************************************************************)
C13_SystemMessagesJoined ==
    /\ Built({"anthropic"}) =>
         LET ms == fn.arg.messages
             rest == SelectSeq(ms, NotSystem)
             body == fn.out.v
         IN  /\ Len(body.messages) = Len(rest)
             /\ \A k \in 1..Len(rest) :
                  body.messages[k] = [role |-> rest[k].role, content |-> rest[k].content]
             /\ ("system" \in DOMAIN body) = (SystemText(ms) # <<>>)
             /\ "system" \in DOMAIN body => body.system = SystemText(ms)
    /\ Built({"gemini"}) =>
         LET ms == fn.arg.messages
             rest == SelectSeq(ms, NotSystem)
             body == fn.out.v
         IN  /\ Len(body.contents) = Len(rest)
             /\ \A k \in 1..Len(rest) :
                  body.contents[k].parts = <<[text |-> rest[k].content]>>
             /\ ("systemInstruction" \in DOMAIN body) = (SystemText(ms) # <<>>)
             /\ "systemInstruction" \in DOMAIN body =>
                  body.systemInstruction = [parts |-> <<[text |-> SystemText(ms)]>>]

\* two system messages with another message between them, joined in order
C13_Witness ==
    /\ Built({"anthropic"})
    /\ fn.arg.messages = <<System(<<"b">>), User(<<"a">>), System(<<"a">>)>>
    /\ fn.out.v.system = <<"b", "NL", "a">>
    /\ fn.out.v.messages = <<[role |-> "user", content |-> <<"a">>]>>

\* map_error has been applied
Classified == fn.op = "map_error" /\ fn.out.some

(***************************************************************************)
(* C14.  map_error never panics: it returns a message for every status,    *)
(* provider, model and body; and for a status outside 400, 401, 404, 429,  *)
(* 500, 502 and 503 the message holds the provider, the status and exactly *)
(* the first 300 characters of the body, the whole body when it is         *)
(* shorter, multi-byte characters around the limit included.               *)
(***************************************************************************)
C14_ClassifierTotalFirst300Chars ==
    Classified =>
        /\ fn.out.v # Panicked
        /\ fn.arg.status \notin {400, 401, 404, 429, 500, 502, 503} =>
             /\ fn.out.v.provider = fn.arg.provider
             /\ fn.out.v.status = fn.arg.status
             /\ fn.out.v.text = CharsTake(fn.arg.body_text, 300)

\* the messages map_error formats
ClassifiedKinds ==
    {"Invalid API key for ", "Rate limited by . Wait and retry.",
     "Model  not found on ", "Bad request to : ",
     " server error. Try again later.", " returned status : "}

\* the messages of a 2xx body that is no JSON or lacks the field path
ParseFailureKinds ==
    {"Failed to parse response JSON: ", "Failed to parse response from API",
     "Failed to parse Anthropic response", "Failed to parse Gemini response"}

\* a non-streaming call has ended after a response whose body could be read
NonStreamingDone(i) ==
    /\ Ended(i)
    /\ ~req[i].stream
    /\ status[i] # 0
    /\ result[i].err.kind # "Failed to read response: "

(***************************************************************************)
(* C15.  A non-streaming call whose response was read returns: the         *)
(* classified error as a failure when the status is not 2xx; a parse       *)
(* failure when the 2xx body is no JSON or lacks the field path of the     *)
(* provider; the extracted text otherwise.  On each of these paths it      *)
(* emits no event.                                                         *)
(***************************************************************************)
C15_NonStreamingOutcomes ==
    \A i \in Ids :
        NonStreamingDone(i) =>
            /\ pc[i] = "returned"
            /\ ~Is2xx(status[i]) =>
                 /\ ~result[i].ok
                 /\ result[i].err.kind \in ClassifiedKinds
                 /\ result[i].err.provider = req[i].provider
            /\ Is2xx(status[i]) =>
                 \/ result[i].ok
                 \/ result[i].err.kind \in ParseFailureKinds
            /\ EventsOf(i) = <<>>

\* the chunks cs without the last one
AllButLast(cs) == SubSeq(cs, 1, Len(cs) - 1)

(***************************************************************************)
(* C16.  Once a call has received a terminating line it has stopped: it    *)
(* has returned; its events are the deltas of the lines before that line   *)
(* and then the one terminal event without error, so that the lines after  *)
(* it, those of the same chunk included, have yielded nothing; what was    *)
(* left in the buffer is gone; and the chunk that completed the line is    *)
(* the last chunk taken from the transport.                                *)
(***************************************************************************)
C16_StopsAtTerminatingLine ==
    \A i \in Ids :
        LET provider == req[i].provider
            lines == LinesOf(i)
            m == FirstTerminating(provider, lines)
            before == DeltaEventsOf(provider, req[i].stream_id, SubSeq(lines, 1, m - 1))
        IN  m > 0 =>
              /\ pc[i] = "returned"
              /\ OneTerminalLast(EventsOf(i))
              /\ Len(EventsOf(i)) = Len(before) + 1
              /\ EventsOf(i)[Len(EventsOf(i))].error = NoError
              /\ buffer[i] = <<>>
              /\ FirstTerminating(provider,
                    CompleteLines(DecodeEach(AllButLast(consumed[i])))) = 0

\* an anthropic call that took in one chunk a message_stop line, a delta
\* line after it and bytes still unsent, and emitted the terminal event only
C16_Witness ==
    \E i \in Ids :
        /\ req[i].provider = "anthropic"
        /\ consumed[i] = <<DataNoSp(<<"an_stop">>) \o DataSp(<<"an<", "a", "END">>)>>
        /\ DeltaText("anthropic", LinesOf(i)[2]) = <<"a">>
        /\ EventsOf(i) = <<PlainTerminal(req[i].stream_id)>>
        /\ pc[i] = "returned"

RECURSIVE FlattenChunks(_)
\* the bytes of the chunks cs, in order
FlattenChunks(cs) == IF cs = <<>> THEN <<>> ELSE Head(cs) \o FlattenChunks(Tail(cs))

\* the bytes of the two multi-byte characters
MultiByteParts == {"C3", "A9", "E2", "82", "AC"}

\* every byte call i has received is a single-byte character
SingleByteOnly(i) ==
    \A k \in 1..Len(FlattenChunks(consumed[i])) :
        FlattenChunks(consumed[i])[k] \notin MultiByteParts

\* the events the line decoder of call i has emitted: all its events but the
\* terminal event of the end of the stream or of a transport error
DecodedEvents(i) ==
    LET evs == EventsOf(i)
    IN  IF pc[i] = "returned" /\ FirstTerminating(req[i].provider, LinesOf(i)) = 0
        THEN SubSeq(evs, 1, Len(evs) - 1)
        ELSE evs

\* call i is, or was, decoding a byte stream
Streams(i) == req[i].stream /\ Is2xx(status[i]) /\ pc[i] \in {"streaming", "returned"}

(***************************************************************************)
(* C17.  For a stream of single-byte characters the events a call has      *)
(* emitted from the bytes it has received, and the unfinished line it      *)
(* holds, are those of the same bytes delivered in one chunk, however the  *)
(* bytes were cut into chunks.                                             *)
(***************************************************************************)
C17_ChunkingInvariant ==
    \A i \in Ids :
        (Streams(i) /\ SingleByteOnly(i)) =>
            LET whole == ProcessChunk(req[i].provider, req[i].stream_id, <<>>,
                                      FlattenChunks(consumed[i]))
            IN  /\ DecodedEvents(i) = whole.events
                /\ pc[i] = "streaming" => buffer[i] = whole.buffer

\* a data line that reached the call in three chunks and yielded its delta
C17_Witness ==
    \E i \in Ids :
        /\ Streams(i) /\ SingleByteOnly(i)
        /\ Len(consumed[i]) = 3
        /\ LinesOf(i) = <<<<"data:", "SP", "oa<", "a", "END">>>>
        /\ Find(consumed[i][1] \o consumed[i][2], "NL") = 0
        /\ DecodedEvents(i) = <<[stream_id |-> req[i].stream_id, delta |-> <<"a">>,
                                 done |-> FALSE, error |-> NoError]>>

RECURSIVE Rejoin(_)
\* the text made of the lines ls, each ended by a line feed
Rejoin(ls) == IF ls = <<>> THEN <<>> ELSE Head(ls) \o <<"NL">> \o Rejoin(Tail(ls))

\* an empty line, a line without the data prefix, a data line whose payload
\* is no JSON document
NoJsonLine(line) ==
    \/ Trim(line) = <<>>
    \/ ~IsDataLine(line)
    \/ ParseJson(PayloadOf(line)) = JNone

\* such a line, the [DONE] sentinel apart
Ignorable(line) == NoJsonLine(line) /\ ~IsSentinelLine(line)

HasJson(line) == ~NoJsonLine(line)
NotIgnorable(line) == ~Ignorable(line)

\* the events of the line decoder on the lines ls delivered whole
EventsOfLines(i, ls) ==
    ProcessLines(req[i].provider, req[i].stream_id, Rejoin(ls), <<>>).events

\* no event of call i carries an error but that of a transport error
OnlyTransportErrors(i) ==
    \A k \in 1..Len(EventsOf(i)) :
        EventsOf(i)[k].error.kind \in {"none", "Stream error from : "}

(***************************************************************************)
(* C18, as claimed.  Empty lines, lines without the data prefix and data   *)
(* lines whose payload is no valid JSON yield no event, end nothing and    *)
(* raise no error: the events of a call are those of its lines with these  *)
(* lines taken out.  The [DONE] sentinel is no valid JSON and ends the     *)
(* stream, so this fails.                                                  *)
(***************************************************************************)
C18_NonJsonLinesIgnored ==
    \A i \in Ids :
        Streams(i) =>
            /\ DecodedEvents(i) = EventsOfLines(i, SelectSeq(LinesOf(i), HasJson))
            /\ OnlyTransportErrors(i)

(***************************************************************************)
(* C18.  Empty lines, lines without the data prefix and data lines whose   *)
(* payload is neither [DONE] nor valid JSON yield no event, end nothing    *)
(* and raise no error: the events of a call are those of its lines with    *)
(* these lines taken out of the stream.                                    *)
(***************************************************************************)
C18_IgnorableLinesIgnored ==
    \A i \in Ids :
        Streams(i) =>
            /\ DecodedEvents(i) = EventsOfLines(i, SelectSeq(LinesOf(i), NotIgnorable))
            /\ OnlyTransportErrors(i)

\* a call that received, in one chunk, a data line that is no JSON and then
\* a delta line, and emitted the delta
C18_Witness ==
    \E i \in Ids :
        /\ Streams(i)
        /\ req[i].provider = "openai"
        /\ consumed[i] = <<DataNoSp(<<"x">>) \o DataSp(<<"oa<", "a", "END">>)>>
        /\ Ignorable(LinesOf(i)[1])
        /\ pc[i] = "streaming"
        /\ EventsOf(i) = <<[stream_id |-> req[i].stream_id, delta |-> <<"a">>,
                            done |-> FALSE, error |-> NoError]>>

\* the delta a line carries for a provider: the text at the field path of
\* the provider, for anthropic only in a content_block_delta; <<>> when the
\* line is no data line, the payload no JSON or the field absent
FieldDelta(provider, line) ==
    IF ~IsDataLine(line) THEN <<>>
    ELSE LET j == ParseJson(PayloadOf(line))
             field ==
                CASE provider \in {"openai", "xai"} ->
                       Get(Get(First(Get(j, "choices")), "delta"), "content")
                  [] provider = "anthropic" ->
                       IF Get(j, "type") = JStr(<<"content_block_delta">>)
                       THEN Get(Get(j, "delta"), "text")
                       ELSE JNone
                  [] provider = "gemini" ->
                       Get(First(Get(Get(First(Get(j, "candidates")), "content"),
                                     "parts")), "text")
                  [] OTHER -> JNone
         IN  IF field.t = "str" THEN field.v ELSE <<>>

\* the lines call i has decoded: those before its first terminating line
DecodedLines(i) ==
    LET m == FirstTerminating(req[i].provider, LinesOf(i))
    IN  IF m = 0 THEN LinesOf(i) ELSE SubSeq(LinesOf(i), 1, m - 1)

(***************************************************************************)
(* C19.  An event is terminal exactly when its delta is empty; and the     *)
(* non-terminal events of a call are, one for one and in order, the deltas *)
(* of the decoded lines that carry a non-empty delta: a line whose delta   *)
(* is empty or absent, as an anthropic payload whose type is not           *)
(* content_block_delta, yields no event.                                   *)
(***************************************************************************)
C19_DeltaEventsNonEmpty ==
    /\ \A k \in 1..Len(events) : events[k].done = (events[k].delta = <<>>)
    /\ \A i \in Ids :
         Streams(i) =>
            LET provider == req[i].provider
                carrying == SelectSeq(DecodedLines(i),
                                      LAMBDA l : FieldDelta(provider, l) # <<>>)
                deltas == SelectSeq(EventsOf(i), LAMBDA e : ~e.done)
            IN  /\ Len(deltas) = Len(carrying)
                /\ \A k \in 1..Len(carrying) :
                     deltas[k].delta = FieldDelta(provider, carrying[k])

\* an anthropic call that decoded a delta line and then a content_block_delta
\* line with an empty text, and emitted one event
C19_Witness ==
    \E i \in Ids :
        /\ Streams(i)
        /\ req[i].provider = "anthropic"
        /\ LinesOf(i) = <<<<"data:", "SP", "an<", "a", "END">>,
                          <<"data:", "SP", "an<", "END">>>>
        /\ Len(EventsOf(i)) = 1
        /\ EventsOf(i)[1].delta = <<"a">>
        /\ ~EventsOf(i)[1].done

RECURSIVE AfterLastLineFeed(_)
\* what a text holds after its last line feed
AfterLastLineFeed(text) ==
    LET p == Find(text, "NL")
    IN  IF p = 0 THEN text ELSE AfterLastLineFeed(SubSeq(text, p + 1, Len(text)))

\* the unfinished line call i has received
Unfinished(i) == AfterLastLineFeed(DecodeEach(consumed[i]))

(***************************************************************************)
(* C20.  When the stream of a call ends while the call holds content not   *)
(* ended by a line feed, that content yields nothing: the call has emitted *)
(* one event for each complete line that carries a delta and then the one  *)
(* terminal event without error, and has returned success, whether the     *)
(* unfinished line holds a delta or a termination marker.                  *)
(***************************************************************************)
C20_UnfinishedLineNotDecoded ==
    \A i \in Ids :
        LET provider == req[i].provider
            evs == EventsOf(i)
        IN  (/\ Streams(i) /\ pc[i] = "returned" /\ result[i].ok
             /\ FirstTerminating(provider, LinesOf(i)) = 0
             /\ Unfinished(i) # <<>>)
                => /\ OneTerminalLast(evs)
                   /\ evs[Len(evs)] = PlainTerminal(req[i].stream_id)
                   /\ Len(evs) - 1 =
                        Len(SelectSeq(LinesOf(i), LAMBDA l : FieldDelta(provider, l) # <<>>))

\* an openai call whose stream ended after an event: line and a whole delta
\* document without its line feed: the terminal event is its only event
C20_Witness ==
    \E i \in Ids :
        /\ Streams(i) /\ pc[i] = "returned" /\ result[i].ok
        /\ req[i].provider = "openai"
        /\ wire[i] = <<>>
        /\ Unfinished(i) = <<"data:", "SP", "oa<", "a", "END">>
        /\ FieldDelta("openai", Unfinished(i)) = <<"a">>
        /\ EventsOf(i) = <<PlainTerminal(req[i].stream_id)>>

====
